---- MODULE Spec2Model ----
(***************************************************************************)
(* State-machine model of the iMessage summarizer's persistent store       *)
(* (src/src/t5/database.py, class MessageDatabase), of the summarizer's    *)
(* identity analysis (src/src/t5/summarizer_utils.py), and of the batch    *)
(* phases that drive them.                                                 *)
(*                                                                         *)
(* Dates are whole days counted from Monday 2024-01-01 (day 0), so that    *)
(* datetime.weekday() of day d is d % 7 and 2024-01-10 is day 9.  A stored *)
(* message_date is the text "YYYY-MM-DD HH:MM:SS"; its text order is its   *)
(* chronological order, which the integers keep.                           *)
(***************************************************************************)
EXTENDS Integers, Sequences, FiniteSets, TLC

VARIABLES
    contacts,   \* table contacts: set of rows [id, identifier, display_name]
    messages,   \* table messages: set of rows [id, contact_id, message_date, text, processed_in_summary]
    weekly,     \* table weekly_conversation_summaries, in id order
    identity,   \* table identity_summaries, in id order
    conn,       \* self.conn: "open" or "closed"
    clock,      \* number of rows written so far with a created_at (datetime.now() order)
    consumed,   \* history: for each weekly row, the ids of the messages summarized in it
    runs,       \* history: number of windowing runs so far
    lastRun,    \* history: what the last windowing run computed
    ingested,   \* history: TRUE when a message was stored since the last windowing run
    marked,     \* history: ids of rows that mark_messages_processed has flagged
    gen,        \* history: the last result of generate_identity_summary
    fetch       \* history: what the last ingestion read from the message source, and stored

vars == <<contacts, messages, weekly, identity, conn, clock, consumed, runs, lastRun, ingested,
          marked, gen, fetch>>

\* Python's None: for a name, for a date, for a contact id
None == "None"

NoDate == -1

NoContact == 0

(***************************************************************************)
(* Bounds of the model.                                                    *)
(***************************************************************************)
MaxMsgs == 2
MaxRuns == 1
MaxLogMsgs == 1
MaxLogRuns == 2
MaxIdentityRuns == 1
MaxContactMsgs == 3
MaxWinDay == 27
MaxSourceRows == 2
ScoreScale == 10

(***************************************************************************)
(* Generic helpers.                                                        *)
(***************************************************************************)
Range(s) == {s[i] : i \in DOMAIN s}

Max(S) == CHOOSE x \in S : \A y \in S : y <= x

Min(S) == CHOOSE x \in S : \A y \in S : x <= y

RECURSIVE SetToSortedSeq(_)
\* the elements of a set of integers in ascending order
SetToSortedSeq(S) ==
    IF S = {} THEN <<>>
    ELSE LET m == Min(S) IN <<m>> \o SetToSortedSeq(S \ {m})

\* INTEGER PRIMARY KEY without AUTOINCREMENT: the new rowid is one more than
\* the largest rowid in use (1 in an empty table), so a deleted id can return.
NextRowId(table) == IF table = {} THEN 1 ELSE Max({r.id : r \in table}) + 1

(***************************************************************************)
(* Identifiers and the contact directory.  An identifier is the sequence   *)
(* of its characters; a display name is the sequence of its words.         *)
(***************************************************************************)
Digits == {"0", "1", "2", "3", "4", "5", "6", "7", "8", "9"}

IsDigit(c) == c \in Digits

ContactA == <<"A">>

ContactB == <<"B">>

PhoneDashed == <<"5", "5", "5", "-", "1", "2", "3", "-", "4", "5", "6", "7">>

PhoneBare == <<"5", "5", "5", "1", "2", "3", "4", "5", "6", "7">>

PhoneIntl == <<"+", "1", "5", "5", "5", "1", "2", "3", "4", "5", "6", "7">>

PhoneLocal == <<"1", "2", "3", "-", "4", "5", "6", "7">>

\* the identifiers the pipeline phases are exercised with
StoreIdentifiers == {ContactA, ContactB}

\* the identifiers the contact resolver is exercised with
PhoneIdentifiers == {PhoneDashed, PhoneBare, PhoneIntl, PhoneLocal}

\* rows of the macOS Contacts database: ZFULLNUMBER / ZADDRESS with the
\* owner's ZFIRSTNAME, ZLASTNAME, ZORGANIZATION
Directory ==
    { [kind |-> "phone",
       address |-> <<"(", "5", "5", "5", ")", " ", "1", "2", "3", "-", "4", "5", "6", "7">>,
       first |-> "Alice", last |-> "Smith", org |-> None],
      [kind |-> "phone", address |-> PhoneLocal,
       first |-> None, last |-> None, org |-> "Acme"],
      [kind |-> "email", address |-> <<"b", "@", "x">>,
       first |-> "Bob", last |-> None, org |-> None] }

\* what the lookup can find on disk: no Contacts database, a database whose
\* query raises, a database that answers
DirectoryStates == {"absent", "error", "present"}

TenDigits == 10

\* the phone branch of get_contact_name: keep the digits, "+1" before ten
\* digits, "+" before more than ten, the bare digits otherwise
FormatPhone(number) ==
    LET digits == SelectSeq(number, IsDigit)
    IN  IF Len(digits) = TenDigits THEN <<"+", "1">> \o digits
        ELSE IF Len(digits) > TenDigits THEN <<"+">> \o digits
        ELSE digits

FormattedId(entry) ==
    IF entry.kind = "phone" THEN FormatPhone(entry.address) ELSE entry.address

\* ' '.join(filter(None, [first, last])), the organization when that is
\* empty, the identifier when there is no name at all
EntryName(entry, identifier) ==
    LET name == SelectSeq(<<entry.first, entry.last>>, LAMBDA w : w # None)
    IN  IF name # <<>> THEN name
        ELSE IF entry.org # None THEN <<entry.org>>
        ELSE identifier

\* a lookup that answers a placeholder when the directory cannot be read,
\* which get_contact_name does not
GetContactNameOrUnknown(identifier, dir) ==
    IF dir # "present" THEN <<"unknown">>
    ELSE LET found == {e \in Directory : FormattedId(e) = identifier}
         IN  IF found # {} THEN EntryName(CHOOSE e \in found : TRUE, identifier)
             ELSE identifier

GetContactName(identifier, dir) ==
    IF dir # "present" THEN identifier
    ELSE LET phones == {e \in Directory : e.kind = "phone" /\ FormattedId(e) = identifier}
             emails == {e \in Directory : e.kind = "email" /\ FormattedId(e) = identifier}
         IN  IF phones # {} THEN EntryName(CHOOSE e \in phones : TRUE, identifier)
             ELSE IF emails # {} THEN EntryName(CHOOSE e \in emails : TRUE, identifier)
             ELSE identifier

(***************************************************************************)
(* The store's write operations.                                           *)
(***************************************************************************)
\* an insert into a contacts table whose identifier is not UNIQUE
InsertContactAlways(table, identifier, display_name) ==
    table \cup {[id |-> NextRowId(table), identifier |-> identifier,
                 display_name |-> display_name]}

\* INSERT OR IGNORE INTO contacts: identifier is UNIQUE, so a second insert
\* of the same identifier is ignored
InsertContactIfAbsent(table, identifier, display_name) ==
    IF \E c \in table : c.identifier = identifier THEN table
    ELSE table \cup {[id |-> NextRowId(table), identifier |-> identifier,
                      display_name |-> display_name]}

ContactIdOf(table, identifier) ==
    (CHOOSE c \in table : c.identifier = identifier).id

\* INSERT OR IGNORE INTO messages: the table's only key is id, which the
\* insert does not give, so no conflict arises and the row is always added
InsertMessage(table, contact_id, message_date, text) ==
    table \cup {[id |-> NextRowId(table), contact_id |-> contact_id,
                 message_date |-> message_date, text |-> text,
                 processed_in_summary |-> FALSE]}

\* the identifiers store_message calls get_contact_name with: the call comes
\* first, before the INSERT OR IGNORE that decides whether a row is new
StoreMessageLookups(contact_identifier) == <<contact_identifier>>

StoreMessage(contact_identifier, message_date, text, dir) ==
    /\ conn = "open"
    /\ LET display_name == GetContactName(contact_identifier, dir)
           table == InsertContactIfAbsent(contacts, contact_identifier, display_name)
           contact_id == ContactIdOf(table, contact_identifier)
       IN  /\ contacts' = table
           /\ messages' = InsertMessage(messages, contact_id, message_date, text)
    /\ UNCHANGED <<weekly, identity, conn, clock>>

\* UPDATE messages SET processed_in_summary = TRUE WHERE id = ?, for each id
SetProcessed(table, message_ids) ==
    {IF m.id \in message_ids THEN [m EXCEPT !.processed_in_summary = TRUE] ELSE m
        : m \in table}

MarkMessagesProcessed(message_ids) ==
    /\ conn = "open"
    /\ messages' = SetProcessed(messages, message_ids)
    /\ UNCHANGED <<contacts, weekly, identity, conn, clock>>

\* the rows DELETE ... WHERE id NOT IN (SELECT MIN(id) ... GROUP BY contact_id,
\* message_date, text) keeps
SameTriple(m, n) ==
    /\ m.contact_id = n.contact_id
    /\ m.message_date = n.message_date
    /\ m.text = n.text

\* a compaction that keeps the highest id of each group
RemoveDuplicatesKeepLast(table) ==
    {m \in table : \A n \in table : SameTriple(m, n) => m.id >= n.id}

RemoveDuplicates(table) ==
    {m \in table : \A n \in table : SameTriple(m, n) => m.id <= n.id}

\* optimize_database: the duplicates are deleted and committed, the connection
\* is closed for VACUUM and reopened only when VACUUM succeeded
OptimizeDatabase(vacuumOk) ==
    /\ conn = "open"
    /\ messages' = RemoveDuplicates(messages)
    /\ conn' = IF vacuumOk THEN "open" ELSE "closed"
    /\ UNCHANGED <<contacts, weekly, identity, clock>>

(***************************************************************************)
(* The store's read operations.                                            *)
(***************************************************************************)
RECURSIVE OrderByDate(_)
\* ORDER BY message_date: ascending by date, rows of one date in id order
OrderByDate(rows) ==
    IF rows = {} THEN <<>>
    ELSE LET first == CHOOSE m \in rows : \A n \in rows :
                          \/ m.message_date < n.message_date
                          \/ (m.message_date = n.message_date /\ m.id <= n.id)
         IN  <<first>> \o OrderByDate(rows \ {first})

GetUnprocessedMessages(contact_id) ==
    OrderByDate({m \in messages :
                    /\ contact_id = NoContact \/ m.contact_id = contact_id
                    /\ ~m.processed_in_summary})

\* m.message_date BETWEEN ? AND ? holds at both ends of the range
GetMessagesForTimeframe(contact_id, start_date, end_date) ==
    OrderByDate({m \in messages :
                    /\ m.contact_id = contact_id
                    /\ start_date <= m.message_date
                    /\ m.message_date <= end_date})

GetAllMessagesForContact(contact_id) ==
    OrderByDate({m \in messages : m.contact_id = contact_id})

\* the latest date in place of the earliest
GetEarliestMessageDateAsMax ==
    IF messages = {} THEN NoDate ELSE Max({m.message_date : m \in messages})

\* SELECT MIN(message_date) FROM messages; None for an empty table
GetEarliestMessageDate ==
    IF messages = {} THEN NoDate ELSE Min({m.message_date : m \in messages})

\* the earliest date in place of the latest
GetLastProcessedDateAsMin ==
    IF messages = {} THEN NoDate ELSE Min({m.message_date : m \in messages})

\* SELECT MAX(message_date) FROM messages; None for an empty table
GetLastProcessedDate ==
    IF messages = {} THEN NoDate ELSE Max({m.message_date : m \in messages})

\* get_all_contacts, in rowid order
GetAllContacts == SetToSortedSeq({c.id : c \in contacts})

(***************************************************************************)
(* Weekly summaries: the summarization engine's wrapper, the store's       *)
(* append, and the windowing pass that drives them.                        *)
(***************************************************************************)
\* what the external summarization engine does with one transcript
EngineOutcomes == {"text", "empty", "throws"}

\* a summarizer that hands the engine's error back as the summary text, which
\* generate_weekly_summary is not
GenerateWeeklySummaryErrorText(outcome) ==
    IF outcome = "throws" THEN "error"
    ELSE IF outcome = "empty" THEN ""
    ELSE "summary"

\* generate_weekly_summary: the decoded summary, "" when anything raised
GenerateWeeklySummary(outcome) ==
    IF outcome = "throws" THEN ""
    ELSE IF outcome = "empty" THEN ""
    ELSE "summary"

WeeklyRow(contact_id, week_start, week_end, summary_text, created_at) ==
    [contact_id |-> contact_id, week_start_date |-> week_start,
     week_end_date |-> week_end, summary_text |-> summary_text,
     created_at |-> created_at]

\* an upsert on (contact, week start), which store_weekly_summary is not
StoreWeeklySummaryUpsert(table, contact_id, week_start, week_end, summary_text, created_at) ==
    LET row == WeeklyRow(contact_id, week_start, week_end, summary_text, created_at)
        old == {i \in DOMAIN table : /\ table[i].contact_id = contact_id
                                     /\ table[i].week_start_date = week_start}
    IN  IF old = {} THEN Append(table, row)
        ELSE [i \in DOMAIN table |-> IF i \in old THEN row ELSE table[i]]

\* an insert that a row of the same (contact, week start) suppresses, which
\* store_weekly_summary is not
StoreWeeklySummaryIfAbsent(table, contact_id, week_start, week_end, summary_text, created_at) ==
    IF \E i \in DOMAIN table : /\ table[i].contact_id = contact_id
                               /\ table[i].week_start_date = week_start
    THEN table
    ELSE Append(table, WeeklyRow(contact_id, week_start, week_end, summary_text, created_at))

\* store_weekly_summary: a plain INSERT, the table has no key but id
StoreWeeklySummary(table, contact_id, week_start, week_end, summary_text, created_at) ==
    Append(table, WeeklyRow(contact_id, week_start, week_end, summary_text, created_at))

DaysPerWindow == 7

\* datetime.weekday(): Monday is 0
Weekday(day) == day % DaysPerWindow

RECURSIVE WindowStarts(_, _)
\* the window starts from the anchor to the current date, in 7-day strides
WindowStarts(start, now) ==
    IF start > now THEN <<>>
    ELSE <<start>> \o WindowStarts(start + DaysPerWindow, now)

\* the windows of a run: none for an empty store, else from the Monday of the
\* earliest message's week
RunWindows(now) ==
    LET earliest == GetEarliestMessageDate
    IN  IF earliest = NoDate THEN <<>>
        ELSE WindowStarts(earliest - Weekday(earliest), now)

\* the (window, contact) units of a run, window by window, contacts in id order
RunUnits(now) ==
    LET starts == RunWindows(now)
        cids == GetAllContacts
        n == Len(cids)
    IN  [k \in 1..(Len(starts) * n) |->
            [start |-> starts[((k - 1) \div n) + 1], contact_id |-> cids[((k - 1) % n) + 1]]]

UnitMessages(u) ==
    GetMessagesForTimeframe(u.contact_id, u.start, u.start + DaysPerWindow)

\* the units whose window holds a message of the contact: the engine is asked
\* about these only
BusyUnits(now) == SelectSeq(RunUnits(now), LAMBDA u : UnitMessages(u) # <<>>)

RECURSIVE StoreUnits(_, _, _, _)
\* one unit after the other: summarize, and store a non-empty summary
StoreUnits(units, engine, table, created_at) ==
    IF units = <<>> THEN table
    ELSE LET u == Head(units)
             summary == GenerateWeeklySummary(engine[u])
         IN  IF summary # ""
             THEN StoreUnits(Tail(units), engine,
                             StoreWeeklySummary(table, u.contact_id, u.start,
                                                u.start + DaysPerWindow, summary,
                                                created_at + 1),
                             created_at + 1)
             ELSE StoreUnits(Tail(units), engine, table, created_at)

RunWeeklySummaries(now, engine) ==
    /\ conn = "open"
    /\ LET units == BusyUnits(now)
           stored == SelectSeq(units, LAMBDA u : GenerateWeeklySummary(engine[u]) # "")
       IN  /\ weekly' = StoreUnits(units, engine, weekly, clock)
           /\ clock' = clock + Len(stored)
    /\ UNCHANGED <<contacts, messages, identity, conn>>

\* what a run reports: its date, its windows, the units that held messages,
\* the summaries it stored, and whether it repeats a run with nothing new
RunReport(now, engine, rerun) ==
    LET units == BusyUnits(now)
        stored == SelectSeq(units, LAMBDA u : GenerateWeeklySummary(engine[u]) # "")
    IN  [now |-> now, starts |-> RunWindows(now), busy |-> Len(units),
         stored |-> Len(stored), rerun |-> rerun]

\* the ids of the messages each row stored by a run summarizes, row by row
RunInputs(now, engine) ==
    LET stored == SelectSeq(BusyUnits(now),
                            LAMBDA u : GenerateWeeklySummary(engine[u]) # "")
    IN  [i \in 1..Len(stored) |-> {m.id : m \in Range(UnitMessages(stored[i]))}]

(***************************************************************************)
(* Identity summaries.  A score is a multiple of 1/ScoreScale, written as  *)
(* its numerator; an aggregate confidence is the pair (sum, count) of the  *)
(* mean it stands for.                                                     *)
(***************************************************************************)
TraitLabels == {"friendly", "formal"}

ContextLabels == {"close friend", "family member"}

TopicLabels == {"work"}

\* the scores the classifier answers with, per classification: 5 and 3 are
\* the thresholds 0.5 and 0.3 themselves
TraitScores == {0, 5, 6, ScoreScale}

ContextScores == {0, ScoreScale}

TopicScores == {3, ScoreScale}

\* a call of the classifier that raised: no answer
Throws == <<>>

\* the answers of the engine to one identity generation: the three
\* classifications (the relationship one as its best label and score) and
\* the narrative
EngineAnswers ==
    [traits : [TraitLabels -> TraitScores] \cup {Throws},
     context : [ContextLabels -> ContextScores] \cup {Throws},
     topics : [TopicLabels -> TopicScores] \cup {Throws},
     narrative : EngineOutcomes]

EmptyMap == <<>>

\* a selection that keeps a trait scored 0.5 as well
RetainTraitsFromHalf(scores) ==
    [l \in {x \in DOMAIN scores : 2 * scores[x] >= ScoreScale} |-> scores[l]]

\* {label: score for label, score in ... if score > 0.5}
RetainTraits(scores) ==
    [l \in {x \in DOMAIN scores : 2 * scores[x] > ScoreScale} |-> scores[l]]

\* _extract_common_topics: the labels scored above 0.3, {} when the engine raised
ExtractCommonTopics(answer) ==
    IF answer = Throws THEN EmptyMap
    ELSE [l \in {x \in DOMAIN answer : 10 * answer[x] > 3 * ScoreScale} |-> answer[l]]

\* context_results["labels"][0]: the pipeline answers its labels by descending
\* score, so the first one is a label of the highest score
FirstLabel(scores) ==
    CHOOSE l \in DOMAIN scores : \A k \in DOMAIN scores : scores[k] <= scores[l]

\* analyze_personality: the three maps, or the fallback when a classification raised
AnalyzePersonality(answers) ==
    IF answers.traits = Throws \/ answers.context = Throws
    THEN [personality_traits |-> EmptyMap,
          relationship_context |-> [l \in {"unknown"} |-> 0],
          common_topics |-> EmptyMap]
    ELSE [personality_traits |-> RetainTraits(answers.traits),
          relationship_context |->
              [l \in {FirstLabel(answers.context)} |-> answers.context[l]],
          common_topics |-> ExtractCommonTopics(answers.topics)]

RECURSIVE SumOf(_)
SumOf(map) ==
    IF DOMAIN map = {} THEN 0
    ELSE LET l == CHOOSE x \in DOMAIN map : TRUE
         IN  map[l] + SumOf([x \in DOMAIN map \ {l} |-> map[x]])

\* the sum without the division by the length
MeanAsSum(map) == [sum |-> SumOf(map), count |-> 1]

\* sum(map.values()) / len(map)
Mean(map) == [sum |-> SumOf(map), count |-> Cardinality(DOMAIN map)]

\* the value of the map's one entry
OnlyValue(map) == [sum |-> map[CHOOSE x \in DOMAIN map : TRUE], count |-> 1]

NoAnalysis == [failed |-> TRUE]

\* generate_identity_summary: ("", {}) when the narrative raised or a mean
\* divided by the length of an empty map, else the narrative with the analysis
\* and its three confidences
GenerateIdentitySummary(answers, previous_summary) ==
    LET analysis == AnalyzePersonality(answers)
    IN  IF \/ answers.narrative = "throws"
           \/ DOMAIN analysis.personality_traits = {}
           \/ DOMAIN analysis.common_topics = {}
        THEN [summary |-> "", analysis |-> NoAnalysis]
        ELSE [summary |-> IF answers.narrative = "empty" THEN ""
                          ELSE IF previous_summary = None THEN "profile"
                          ELSE "profile merged",
              analysis |->
                  [failed |-> FALSE,
                   personality_traits |-> analysis.personality_traits,
                   relationship_context |-> analysis.relationship_context,
                   common_topics |-> analysis.common_topics,
                   personality_confidence |-> Mean(analysis.personality_traits),
                   relationship_confidence |-> OnlyValue(analysis.relationship_context),
                   topics_confidence |-> Mean(analysis.common_topics)]]

\* store_identity_summary: a plain INSERT; created_at is datetime.now(), whose
\* text has a fraction of a second unless the microsecond is 0
StoreIdentitySummary(table, contact_id, summary_text, analysis, created_at, whole) ==
    Append(table,
           [contact_id |-> contact_id, summary_text |-> summary_text,
            created_at |-> created_at, whole_second |-> whole,
            personality_traits |-> analysis.personality_traits,
            relationship_context |-> analysis.relationship_context,
            common_topics |-> analysis.common_topics,
            confidence_scores |->
                [personality |-> analysis.personality_confidence,
                 relationship |-> analysis.relationship_confidence,
                 topics |-> analysis.topics_confidence]])

NoSnapshot == [found |-> FALSE]

\* get_latest_identity_summary: the contact's row of the greatest created_at;
\* None when there is none, and when strptime("%Y-%m-%d %H:%M:%S") raises on
\* the fraction of a second
GetLatestIdentitySummary(contact_id) ==
    LET rows == {i \in DOMAIN identity : identity[i].contact_id = contact_id}
    IN  IF rows = {} THEN NoSnapshot
        ELSE LET latest == CHOOSE i \in rows :
                               \A j \in rows : identity[j].created_at <= identity[i].created_at
             IN  IF identity[latest].whole_second
                 THEN [found |-> TRUE,
                       summary_text |-> identity[latest].summary_text,
                       personality_traits |-> identity[latest].personality_traits,
                       relationship_context |-> identity[latest].relationship_context,
                       common_topics |-> identity[latest].common_topics,
                       created_at |-> identity[latest].created_at]
                 ELSE NoSnapshot

\* the identity pass for one contact with messages: the history, the previous
\* snapshot, the generation, and the append of what was generated
UpdateIdentity(contact_id, answers, whole) ==
    /\ conn = "open"
    /\ GetAllMessagesForContact(contact_id) # <<>>
    /\ LET latest == GetLatestIdentitySummary(contact_id)
           previous == IF latest.found THEN latest.summary_text ELSE None
           result == GenerateIdentitySummary(answers, previous)
       IN  /\ gen' = [called |-> TRUE, retained |-> AnalyzePersonality(answers),
                      previous |-> previous, summary |-> result.summary,
                      analysis |-> result.analysis]
           /\ IF result.analysis.failed
              THEN UNCHANGED <<identity, clock>>
              ELSE /\ identity' = StoreIdentitySummary(identity, contact_id, result.summary,
                                                       result.analysis, clock + 1, whole)
                   /\ clock' = clock + 1
    /\ UNCHANGED <<contacts, messages, weekly, conn>>

(***************************************************************************)
(* The message source (chat.db) and fetch_messages.  A text is the         *)
(* sequence of its characters.                                             *)
(***************************************************************************)
UpperLetters == <<"A", "B", "C", "D", "E", "F", "G", "H", "I", "J", "K", "L", "M",
                  "N", "O", "P", "Q", "R", "S", "T", "U", "V", "W", "X", "Y", "Z">>

LowerLetters == <<"a", "b", "c", "d", "e", "f", "g", "h", "i", "j", "k", "l", "m",
                  "n", "o", "p", "q", "r", "s", "t", "u", "v", "w", "x", "y", "z">>

\* str.lower()
Lower(text) ==
    [i \in DOMAIN text |->
        IF \E k \in DOMAIN UpperLetters : UpperLetters[k] = text[i]
        THEN LowerLetters[CHOOSE k \in DOMAIN UpperLetters : UpperLetters[k] = text[i]]
        ELSE text[i]]

Whitespace == {" ", "\t", "\n"}

\* str.strip()
Strip(text) ==
    LET inked == {i \in DOMAIN text : text[i] \notin Whitespace}
    IN  IF inked = {} THEN <<>> ELSE SubSeq(text, Min(inked), Max(inked))

\* len(text.split()): the number of maximal runs of non-whitespace
WordCount(text) ==
    Cardinality({i \in DOMAIN text :
                    /\ text[i] \notin Whitespace
                    /\ i = 1 \/ text[i - 1] \in Whitespace})

\* skip_text in text
Contains(text, skip_text) ==
    \E i \in 1..(Len(text) - Len(skip_text) + 1) :
        SubSeq(text, i, i + Len(skip_text) - 1) = skip_text

\* the texts of automated messages and reactions
SkipTexts ==
    {<<"l", "i", "k", "e", "d">>,
     <<"e", "m", "p", "h", "a", "s", "i", "z", "e", "d">>,
     <<"s", "e", "n", "t", " ", "y", "o", "u", " ", "$">>,
     <<"u", "s", "p", "s">>,
     <<"t", "r", "a", "c", "k", "i", "n", "g">>,
     <<"d", "u", "o", "l", "i", "n", "g", "o">>,
     <<"b", "o", "f", "a", ":">>,
     <<"u", ".", "s", ".", " ", "p", "o", "s", "t">>}

MinWords == 2

\* a filter that compares the patterns with the text as it is written
SkippedCaseSensitive(text) ==
    \/ \E skip_text \in SkipTexts : Contains(text, skip_text)
    \/ WordCount(text) < MinWords

\* the filter of fetch_messages on a stripped text: TRUE when the row is skipped
Skipped(text) ==
    \/ \E skip_text \in SkipTexts : Contains(Lower(text), skip_text)
    \/ WordCount(text) < MinWords

RECURSIVE OrderByChatThenDate(_)
\* ORDER BY chat.ROWID, message_date ASC
OrderByChatThenDate(rows) ==
    IF rows = {} THEN <<>>
    ELSE LET first == CHOOSE m \in rows : \A n \in rows :
                          \/ m.chat_id < n.chat_id
                          \/ (m.chat_id = n.chat_id /\ m.date <= n.date)
         IN  <<first>> \o OrderByChatThenDate(rows \ {first})

\* what fetch_messages finds on disk: no chat.db, a chat.db whose query
\* raises, a chat.db that answers
SourceStates == {"absent", "error", "present"}

\* a read that answers the rows it has when the query raises
FetchMessagesDespiteError(state, source, start_date) ==
    IF state = "absent" THEN <<>>
    ELSE LET rows == {m \in source : start_date = NoDate \/ m.date > start_date}
             ordered == OrderByChatThenDate(rows)
         IN  [i \in DOMAIN ordered |->
                 [date |-> ordered[i].date, text |-> Strip(ordered[i].text),
                  sender |-> ordered[i].sender, chat_id |-> ordered[i].chat_id]]

\* fetch_messages: the rows later than start_date (all of them for None), by
\* chat and then by date, stripped, without the skipped ones; [] when there is
\* no chat.db or the query raises.  chat_id names the chat of the row (the
\* code answers chat.chat_identifier under that key, and orders by chat.ROWID)
FetchMessages(state, source, start_date) ==
    IF state # "present" THEN <<>>
    ELSE LET rows == {m \in source : start_date = NoDate \/ m.date > start_date}
             ordered == OrderByChatThenDate(rows)
             stripped == [i \in DOMAIN ordered |->
                             [date |-> ordered[i].date, text |-> Strip(ordered[i].text),
                              sender |-> ordered[i].sender, chat_id |-> ordered[i].chat_id]]
         IN  SelectSeq(stripped, LAMBDA m : ~Skipped(m.text))

(***************************************************************************)
(* The ingestion stage: the high-water mark, the read from the source, a   *)
(* store_message for each message read.                                    *)
(***************************************************************************)
RECURSIVE StoreAll(_, _, _)
\* store_message for each message of the list, in its order; the result is
\* the two tables
StoreAll(msgs, tables, dir) ==
    IF msgs = <<>> THEN tables
    ELSE LET m == Head(msgs)
             table == InsertContactIfAbsent(tables.contacts, m.sender,
                                            GetContactName(m.sender, dir))
             contact_id == ContactIdOf(table, m.sender)
         IN  StoreAll(Tail(msgs),
                      [contacts |-> table,
                       messages |-> InsertMessage(tables.messages, contact_id, m.date, m.text)],
                      dir)

\* one ingestion: what it read and what it reports as newly stored
Ingestion(state, source, dir) ==
    /\ conn = "open"
    /\ LET start_date == GetLastProcessedDate
           result == FetchMessages(state, source, start_date)
           tables == StoreAll(result, [contacts |-> contacts, messages |-> messages], dir)
       IN  /\ contacts' = tables.contacts
           /\ messages' = tables.messages
           /\ fetch' = [called |-> TRUE, state |-> state, source |-> source,
                        start_date |-> start_date, result |-> result,
                        stored |-> Len(result)]
    /\ UNCHANGED <<weekly, identity, conn, clock>>

\* an ingestion that stops after the first k messages it read: each
\* store_message commits on its own, so these k stay stored
IngestionInterrupted(state, source, dir, k) ==
    /\ conn = "open"
    /\ LET start_date == GetLastProcessedDate
           result == FetchMessages(state, source, start_date)
           tables == StoreAll(SubSeq(result, 1, k),
                              [contacts |-> contacts, messages |-> messages], dir)
       IN  /\ k < Len(result)
           /\ contacts' = tables.contacts
           /\ messages' = tables.messages
           /\ fetch' = [called |-> TRUE, state |-> state, source |-> source,
                        start_date |-> start_date, result |-> result,
                        stored |-> k]
    /\ UNCHANGED <<weekly, identity, conn, clock>>

(***************************************************************************)
(* The store under its callers: ingestion, flagging, the windowing pass    *)
(* and compaction, in any order.                                           *)
(***************************************************************************)
\* dates of the messages stored: day 1 and day 7 lie one window apart, and
\* day 7 is the Monday on which the window anchored at day 0 ends
MessageDays == {1, 7, 9}

Texts == {"hi there", "see you"}

\* current dates of the windowing runs
NowDays == {9, 16}

NoRun == [now |-> NoDate, starts |-> <<>>, busy |-> 0, stored |-> 0, rerun |-> FALSE]

NoGen == [called |-> FALSE]

NoFetch == [called |-> FALSE]

Init ==
    /\ contacts = {}
    /\ messages = {}
    /\ weekly = <<>>
    /\ identity = <<>>
    /\ conn = "open"
    /\ clock = 0
    /\ consumed = <<>>
    /\ runs = 0
    /\ lastRun = NoRun
    /\ ingested = FALSE
    /\ marked = {}
    /\ gen = NoGen
    /\ fetch = NoFetch

\* the history variables of the windowing pass, for a step that is no pass
NoPass == UNCHANGED <<consumed, runs, lastRun>>

Ingest ==
    /\ Cardinality(messages) < MaxMsgs
    /\ \E identifier \in StoreIdentifiers, day \in MessageDays, text \in Texts,
          dir \in DirectoryStates :
           StoreMessage(identifier, day, text, dir)
    /\ ingested' = TRUE
    /\ NoPass
    /\ UNCHANGED <<marked, gen, fetch>>

Flag ==
    /\ \E ids \in SUBSET (1..MaxMsgs) :
           /\ ids # {}
           /\ MarkMessagesProcessed(ids)
           /\ marked' = marked \cup (ids \cap {m.id : m \in messages})
    /\ NoPass
    /\ UNCHANGED <<ingested, gen, fetch>>

Windowing ==
    /\ runs < MaxRuns
    /\ \E now \in NowDays :
           \E engine \in [Range(BusyUnits(now)) -> EngineOutcomes] :
               /\ RunWeeklySummaries(now, engine)
               /\ lastRun' = RunReport(now, engine, runs > 0 /\ ~ingested)
               /\ consumed' = consumed \o RunInputs(now, engine)
    /\ runs' = runs + 1
    /\ ingested' = FALSE
    /\ UNCHANGED <<marked, gen, fetch>>

Compact ==
    /\ \E vacuumOk \in BOOLEAN : OptimizeDatabase(vacuumOk)
    /\ NoPass
    /\ UNCHANGED <<ingested, marked, gen, fetch>>

Next ==
    \/ Ingest
    \/ Flag
    \/ Windowing
    \/ Compact

Spec == Init /\ [][Next]_vars

(***************************************************************************)
(* The weekly log under the same callers, followed over several passes.    *)
(***************************************************************************)
LogDays == {1, 7}

LogTexts == {"hi there"}

LogNowDays == {9, 16}

LogIngest ==
    /\ Cardinality(messages) < MaxLogMsgs
    /\ \E identifier \in StoreIdentifiers, day \in LogDays, text \in LogTexts,
          dir \in DirectoryStates :
           StoreMessage(identifier, day, text, dir)
    /\ ingested' = TRUE
    /\ UNCHANGED <<consumed, runs, lastRun, marked, gen, fetch>>

\* the caller flags what get_unprocessed_messages returned
LogFlag ==
    /\ MarkMessagesProcessed({m.id : m \in Range(GetUnprocessedMessages(NoContact))})
    /\ UNCHANGED <<consumed, runs, lastRun, ingested, marked, gen, fetch>>

LogWindowing ==
    /\ runs < MaxLogRuns
    /\ \E now \in LogNowDays :
           \E engine \in [Range(BusyUnits(now)) -> EngineOutcomes] :
               /\ RunWeeklySummaries(now, engine)
               /\ lastRun' = RunReport(now, engine, runs > 0 /\ ~ingested)
    /\ runs' = runs + 1
    /\ ingested' = FALSE
    /\ UNCHANGED <<consumed, marked, gen, fetch>>

LogCompact ==
    /\ \E vacuumOk \in BOOLEAN : OptimizeDatabase(vacuumOk)
    /\ UNCHANGED <<consumed, runs, lastRun, ingested, marked, gen, fetch>>

LogNext ==
    \/ LogIngest
    \/ LogFlag
    \/ LogWindowing
    \/ LogCompact

SpecLog == Init /\ [][LogNext]_vars

(***************************************************************************)
(* The windowing pass over a store that holds two messages, on any current *)
(* date.                                                                   *)
(***************************************************************************)
WinDays == 0..MaxWinDay

StoredRow(id, contact_id, day, text) ==
    [id |-> id, contact_id |-> contact_id, message_date |-> day, text |-> text,
     processed_in_summary |-> FALSE]

WinInit ==
    /\ contacts = {[id |-> 1, identifier |-> ContactA, display_name |-> ContactA]}
    /\ \E d1, d2 \in WinDays, text \in Texts :
           messages = {StoredRow(1, 1, d1, "hi there"), StoredRow(2, 1, d2, text)}
    /\ weekly = <<>>
    /\ identity = <<>>
    /\ conn = "open"
    /\ clock = 0
    /\ consumed = <<>>
    /\ runs = 0
    /\ lastRun = NoRun
    /\ ingested = TRUE
    /\ marked = {}
    /\ gen = NoGen
    /\ fetch = NoFetch

WinPass ==
    /\ runs = 0
    /\ \E now \in WinDays :
           \E engine \in [Range(BusyUnits(now)) -> {"text"}] :
               /\ RunWeeklySummaries(now, engine)
               /\ lastRun' = RunReport(now, engine, FALSE)
    /\ runs' = runs + 1
    /\ ingested' = FALSE
    /\ UNCHANGED <<consumed, marked, gen, fetch>>

WinNext == WinPass

SpecWin == WinInit /\ [][WinNext]_vars

(***************************************************************************)
(* The identity pass for one contact.                                      *)
(***************************************************************************)
IdIngest ==
    /\ messages = {}
    /\ \E text \in Texts : StoreMessage(ContactA, 1, text, "absent")
    /\ UNCHANGED <<consumed, runs, lastRun, ingested, marked, gen, fetch>>

IdUpdate ==
    /\ runs < MaxIdentityRuns
    /\ \E c \in contacts, answers \in EngineAnswers, whole \in BOOLEAN :
           UpdateIdentity(c.id, answers, whole)
    /\ runs' = runs + 1
    /\ UNCHANGED <<consumed, lastRun, ingested, marked, fetch>>

IdNext ==
    \/ IdIngest
    \/ IdUpdate

SpecIdentity == Init /\ [][IdNext]_vars

(***************************************************************************)
(* Ingestion from senders whose identifiers are phone numbers.             *)
(***************************************************************************)
ContactIngest ==
    /\ Cardinality(messages) < MaxContactMsgs
    /\ \E identifier \in PhoneIdentifiers, dir \in DirectoryStates :
           StoreMessage(identifier, 1, "hi there", dir)
    /\ UNCHANGED <<consumed, runs, lastRun, ingested, marked, gen, fetch>>

ContactFlag ==
    /\ \E ids \in SUBSET {m.id : m \in messages} :
           /\ ids # {}
           /\ MarkMessagesProcessed(ids)
    /\ UNCHANGED <<consumed, runs, lastRun, ingested, marked, gen, fetch>>

ContactCompact ==
    /\ \E vacuumOk \in BOOLEAN : OptimizeDatabase(vacuumOk)
    /\ UNCHANGED <<consumed, runs, lastRun, ingested, marked, gen, fetch>>

ContactNext ==
    \/ ContactIngest
    \/ ContactFlag
    \/ ContactCompact

SpecContacts == Init /\ [][ContactNext]_vars

(***************************************************************************)
(* One ingestion from any small source into a store that earlier runs      *)
(* left.                                                                   *)
(***************************************************************************)
ChatIds == {1, 2}

\* day 3 is the date of the latest message of the stores of SourceInit
SourceDays == {1, 3, 8}

\* "Liked it" is a reaction, "BofA: due" an automated message, "ok" has one
\* word, " yo you " has blanks around
SourceTexts ==
    {<<"B", "o", "f", "A", ":", " ", "d", "u", "e">>,
     <<"L", "i", "k", "e", "d", " ", "i", "t">>,
     <<"o", "k">>,
     <<"h", "i", " ", "a", "l", "l">>,
     <<" ", "y", "o", " ", "y", "o", "u", " ">>}

\* handle.id of the chat's other party
SenderOf(chat_id) == IF chat_id = 1 THEN ContactA ELSE ContactB

SourceRow(chat_id, date, text) ==
    [chat_id |-> chat_id, date |-> date, text |-> text, sender |-> SenderOf(chat_id)]

\* the sources of at most MaxSourceRows messages, no two of one chat and date
Sources ==
    UNION {{{SourceRow(k[1], k[2], f[k]) : k \in K} : f \in [K -> SourceTexts]} :
              K \in {L \in SUBSET (ChatIds \X SourceDays) : Cardinality(L) <= MaxSourceRows}}

PriorDays == {{}, {3}, {1, 3}}

SourceInit ==
    /\ \E days \in PriorDays :
           /\ messages = {StoredRow(IF d = 3 THEN 1 ELSE 2, 1, d, <<"h", "i", " ", "a", "l", "l">>) : d \in days}
           /\ contacts = IF days = {} THEN {}
                         ELSE {[id |-> 1, identifier |-> ContactA, display_name |-> ContactA]}
    /\ weekly = <<>>
    /\ identity = <<>>
    /\ conn = "open"
    /\ clock = 0
    /\ consumed = <<>>
    /\ runs = 0
    /\ lastRun = NoRun
    /\ ingested = FALSE
    /\ marked = {}
    /\ gen = NoGen
    /\ fetch = NoFetch

SourceIngest ==
    /\ ~fetch.called
    /\ \E state \in SourceStates, source \in Sources : Ingestion(state, source, "absent")
    /\ ingested' = TRUE
    /\ UNCHANGED <<consumed, runs, lastRun, marked, gen>>

SourceNext == SourceIngest

SpecSource == SourceInit /\ [][SourceNext]_vars

(***************************************************************************)
(* One pipeline run from an empty store: ingestion of three messages of    *)
(* one contact, the windowing pass, the identity pass, with an engine that *)
(* answers every call.                                                     *)
(***************************************************************************)
\* days of two calendar weeks, none of them a Monday
RunDays == {1, 3, 8, 10}

\* a message of one word and a message of two
RunTexts ==
    {<<"o", "k">>,
     <<"h", "i", " ", "a", "l", "l">>}

RunNowDays == {10, 13}

\* three messages of contact "A" in one chat, at three of the days
RunSources ==
    UNION {{{SourceRow(1, d, f[d]) : d \in D} : f \in [D -> RunTexts]} :
              D \in {E \in SUBSET RunDays : Cardinality(E) = 3}}

\* the engine finds a trait, a relationship and a topic, and writes a narrative
RunAnswers ==
    {a \in EngineAnswers :
        /\ a.narrative = "text"
        /\ a.traits # Throws /\ a.context # Throws /\ a.topics # Throws
        /\ \A l \in DOMAIN a.traits : a.traits[l] = ScoreScale
        /\ \E l \in DOMAIN a.context : a.context[l] = ScoreScale
        /\ \A l \in DOMAIN a.topics : a.topics[l] = ScoreScale}

RunIngest ==
    /\ ~fetch.called
    /\ \E source \in RunSources : Ingestion("present", source, "absent")
    /\ ingested' = TRUE
    /\ UNCHANGED <<consumed, runs, lastRun, marked, gen>>

RunWindowing ==
    /\ fetch.called
    /\ runs = 0
    /\ \E now \in RunNowDays :
           \E engine \in [Range(BusyUnits(now)) -> {"text"}] :
               /\ RunWeeklySummaries(now, engine)
               /\ lastRun' = RunReport(now, engine, FALSE)
               /\ consumed' = consumed \o RunInputs(now, engine)
    /\ runs' = runs + 1
    /\ ingested' = FALSE
    /\ UNCHANGED <<marked, gen, fetch>>

\* the identity pass over the contacts with messages: here one contact at most
RunIdentity ==
    /\ runs = 1
    /\ IF contacts = {}
       THEN UNCHANGED <<contacts, messages, weekly, identity, conn, clock, gen>>
       ELSE \E c \in contacts, answers \in RunAnswers, whole \in BOOLEAN :
                UpdateIdentity(c.id, answers, whole)
    /\ runs' = runs + 1
    /\ UNCHANGED <<consumed, lastRun, ingested, marked, fetch>>

RunNext ==
    \/ RunIngest
    \/ RunWindowing
    \/ RunIdentity

SpecRun == Init /\ [][RunNext]_vars

(***************************************************************************)
(* analyze_personality on any answers of the classifier.                   *)
(***************************************************************************)
AnalysisInit ==
    /\ contacts = {}
    /\ messages = {}
    /\ weekly = <<>>
    /\ identity = <<>>
    /\ conn = "open"
    /\ clock = 0
    /\ consumed = <<>>
    /\ runs = 0
    /\ lastRun = NoRun
    /\ ingested = FALSE
    /\ marked = {}
    /\ \E answers \in EngineAnswers : gen = [called |-> FALSE, answers |-> answers]
    /\ fetch = NoFetch

Analyze ==
    /\ ~gen.called
    /\ gen' = [called |-> TRUE, answers |-> gen.answers,
               retained |-> AnalyzePersonality(gen.answers),
               result |-> GenerateIdentitySummary(gen.answers, None)]
    /\ UNCHANGED <<contacts, messages, weekly, identity, conn, clock, consumed, runs,
                   lastRun, ingested, marked, fetch>>

AnalysisNext == Analyze

SpecAnalysis == AnalysisInit /\ [][AnalysisNext]_vars

(***************************************************************************)
(* Properties of the store.                                                *)
(***************************************************************************)
\* C1: no two message rows share the same (contact id, timestamp, text):
\* storing the same triple twice leaves one row
C1_UniqueTriples ==
    \A m, n \in messages : SameTriple(m, n) => m = n

\* C2: every stored message is in the input of at most one persisted weekly
\* summary row
C2_SummarizedOnce ==
    \A m \in messages :
        Cardinality({i \in DOMAIN consumed : m.id \in consumed[i]}) <= 1

\* C3: an id that mark_messages_processed has flagged stays flagged, is never
\* returned by get_unprocessed_messages, and flagging it again changes nothing
C3_MarkedStaysProcessed ==
    /\ \A m \in messages : m.id \in marked => m.processed_in_summary
    /\ \A m \in Range(GetUnprocessedMessages(NoContact)) : m.id \notin marked
    /\ SetProcessed(SetProcessed(messages, marked), marked) = SetProcessed(messages, marked)

RowsFor(table, contact_id, week_start) ==
    {i \in DOMAIN table : /\ table[i].contact_id = contact_id
                          /\ table[i].week_start_date = week_start}

\* C4: the weekly summaries are an append-only log: no step changes or removes
\* a row, and a windowing pass adds one row for each unit whose summary is not
\* empty, whether or not the unit already has a row
C4_AppendOnly ==
    [][/\ Len(weekly') >= Len(weekly)
       /\ SubSeq(weekly', 1, Len(weekly)) = weekly
       /\ runs' = runs + 1 =>
            /\ Len(weekly') = Len(weekly) + lastRun'.stored
            /\ \A i, j \in (Len(weekly) + 1)..Len(weekly') :
                   /\ weekly'[i].contact_id = weekly'[j].contact_id
                   /\ weekly'[i].week_start_date = weekly'[j].week_start_date
                   => i = j]_vars

\* two passes over the same window of the same contact each left their row
C4_Witness ==
    /\ runs = 2
    /\ lastRun.rerun
    /\ \E i, j \in DOMAIN weekly :
           /\ i < j
           /\ weekly[i].contact_id = weekly[j].contact_id
           /\ weekly[i].week_start_date = weekly[j].week_start_date
           /\ weekly[i].week_end_date = weekly[j].week_end_date
           /\ weekly[i].created_at < weekly[j].created_at

\* a windowing pass that follows another with no message stored in between
Rerun == runs' = runs + 1 /\ runs > 0 /\ ~ingested

RangeBounds == {0, 7, 14}

\* C7: get_messages_for_timeframe returns, in ascending date order, exactly the
\* contact's messages with start <= date < end
C7_EndExclusive ==
    \A c \in contacts : \A s, e \in RangeBounds :
        LET result == GetMessagesForTimeframe(c.id, s, e)
        IN  /\ Range(result) = {m \in messages : /\ m.contact_id = c.id
                                                  /\ s <= m.message_date
                                                  /\ m.message_date < e}
            /\ \A i, j \in DOMAIN result :
                   i < j => result[i].message_date <= result[j].message_date

(***************************************************************************)
(* Properties of the windowing pass.                                       *)
(***************************************************************************)
\* C6: the window starts of a pass depend only on the earliest stored date and
\* the current date: the first is the Monday of the earliest message's week,
\* each next one is 7 days later, the last is the greatest not after the
\* current date; for 2024-01-10 (day 9) and 2024-01-25 (day 24) they are
\* 2024-01-08, 2024-01-15 and 2024-01-22 (days 7, 14, 21)
C6_WindowStarts ==
    runs > 0 =>
        LET earliest == Min({m.message_date : m \in messages})
            starts == lastRun.starts
            now == lastRun.now
        IN  /\ starts = <<>> <=> now < earliest - (earliest % 7)
            /\ starts # <<>> =>
                   /\ starts[1] % 7 = 0
                   /\ starts[1] <= earliest
                   /\ earliest < starts[1] + 7
                   /\ \A i \in 1..(Len(starts) - 1) : starts[i + 1] = starts[i] + 7
                   /\ starts[Len(starts)] <= now
                   /\ now < starts[Len(starts)] + 7
            /\ (earliest = 9 /\ now = 24) => starts = <<7, 14, 21>>

\* the pass of 2024-01-25 over a store whose earliest message is of 2024-01-10,
\* next to a later message of another text
C6_Witness ==
    /\ runs > 0
    /\ lastRun.now = 24
    /\ lastRun.starts = <<7, 14, 21>>
    /\ \E m, n \in messages :
           /\ m.message_date = 9
           /\ n.message_date > 9
           /\ n.text # m.text

(***************************************************************************)
(* Properties of the identity summaries.                                   *)
(***************************************************************************)
\* C8: when the retained trait map or the retained topic map is empty, the
\* generation still yields a result, with an aggregate confidence of 0 for
\* that dimension
C8_EmptyMapZero ==
    gen.called =>
        /\ DOMAIN gen.retained.personality_traits = {} =>
               /\ ~gen.analysis.failed
               /\ gen.analysis.personality_confidence.sum = 0
        /\ DOMAIN gen.retained.common_topics = {} =>
               /\ ~gen.analysis.failed
               /\ gen.analysis.topics_confidence.sum = 0

\* a score, or a mean of scores, between 0 and 1
InUnit(c) == c.count > 0 /\ 0 <= c.sum /\ c.sum <= c.count * ScoreScale

ScoresInUnit(map) == \A l \in DOMAIN map : 0 <= map[l] /\ map[l] <= ScoreScale

Canonical(identifier) ==
    LET digits == SelectSeq(identifier, IsDigit)
    IN  IF Len(digits) = 10 THEN <<"+", "1">> \o digits ELSE <<"+">> \o digits

\* C10: identifiers that are formattings of one phone number are stored as one
\* canonical identifier: one contact row, one display name
C10_OneCanonicalContact ==
    /\ \A c \in contacts : c.identifier = Canonical(c.identifier)
    /\ \A c, d \in contacts :
           Canonical(c.identifier) = Canonical(d.identifier) =>
               c = d /\ c.display_name = d.display_name

(***************************************************************************)
(* Properties of contact resolution and the contacts table.                *)
(***************************************************************************)
\* the lookup of the identifier finds no name: no directory, a directory whose
\* query raises, or no entry of the identifier
Unresolved(identifier, dir) ==
    dir # "present" \/ \A e \in Directory : FormattedId(e) # identifier

\* C11: when the directory is absent, the lookup raises or no entry matches,
\* get_contact_name returns the raw identifier, and store_message still adds
\* the message, under a contact of that identifier (named by it when new)
C11_ResolutionNeverFatal ==
    [][\A identifier \in PhoneIdentifiers, dir \in DirectoryStates :
           (Unresolved(identifier, dir) /\ StoreMessage(identifier, 1, "hi there", dir)) =>
               /\ GetContactName(identifier, dir) = identifier
               /\ Cardinality(messages') = Cardinality(messages) + 1
               /\ \E c \in contacts' :
                      /\ c.identifier = identifier
                      /\ c \notin contacts => c.display_name = identifier
                      /\ \E m \in messages' \ messages :
                             m.contact_id = c.id /\ m.text = "hi there"]_vars

\* a number the directory knows was stored while the directory could not be
\* read: the contact is named by its identifier and has its message
C11_Witness ==
    \E c \in contacts :
        /\ c.identifier = PhoneIntl
        /\ c.display_name = PhoneIntl
        /\ \E m \in messages : m.contact_id = c.id

\* C12: the contacts table holds one row per identifier, a store_message of a
\* known identifier files the message under the id the contact already had,
\* and no step changes a contact's id or identifier or removes a contact
C12_OneRowPerIdentifier ==
    /\ [](\A c, d \in contacts : (c.identifier = d.identifier \/ c.id = d.id) => c = d)
    /\ [][/\ \A c \in contacts :
                \E d \in contacts' : d.id = c.id /\ d.identifier = c.identifier
          /\ \A identifier \in PhoneIdentifiers, dir \in DirectoryStates :
                 \A c \in contacts :
                     (c.identifier = identifier /\ StoreMessage(identifier, 1, "hi there", dir)) =>
                         /\ contacts' = contacts
                         /\ \A m \in messages' \ messages : m.contact_id = c.id]_vars

\* two contacts; the first one's second message was filed under the id it
\* had, and one of its messages is flagged
C12_Witness ==
    /\ Cardinality(contacts) = 2
    /\ \E c \in contacts :
           /\ c.id = 1
           /\ {m.id : m \in {n \in messages : n.contact_id = c.id}} = {1, 3}
           /\ \E m \in messages : m.contact_id = c.id /\ m.processed_in_summary

(***************************************************************************)
(* Properties of the identity snapshots.                                   *)
(***************************************************************************)
\* C13: get_latest_identity_summary answers None only for a contact without a
\* snapshot; for a contact with snapshots it answers the one of the greatest
\* created_at, with the narrative and the maps that were stored
C13_LatestSnapshot ==
    \A c \in contacts :
        LET rows == {i \in DOMAIN identity : identity[i].contact_id = c.id}
            latest == GetLatestIdentitySummary(c.id)
        IN  /\ rows = {} => ~latest.found
            /\ rows # {} =>
                   /\ latest.found
                   /\ \E i \in rows :
                          /\ \A j \in rows : identity[j].created_at <= identity[i].created_at
                          /\ latest.summary_text = identity[i].summary_text
                          /\ latest.personality_traits = identity[i].personality_traits
                          /\ latest.relationship_context = identity[i].relationship_context
                          /\ latest.common_topics = identity[i].common_topics

(***************************************************************************)
(* Properties of compaction.                                               *)
(***************************************************************************)
\* the rows of the table with the contact, date and text of the row
GroupOf(table, m) ==
    {n \in table : /\ n.contact_id = m.contact_id
                   /\ n.message_date = m.message_date
                   /\ n.text = m.text}

\* C14: optimize_database removes exactly the rows that are not the lowest id
\* of their (contact, date, text) group: every group keeps one row, the one of
\* its least id, the other tables are as before, and a second compaction
\* removes nothing
C14_CompactKeepsLowestId ==
    [][\A vacuumOk \in BOOLEAN :
           OptimizeDatabase(vacuumOk) =>
               /\ messages' \subseteq messages
               /\ \A m \in messages :
                      /\ Cardinality(GroupOf(messages', m)) = 1
                      /\ \A k \in GroupOf(messages', m) :
                             \A n \in GroupOf(messages, m) : k.id <= n.id
               /\ contacts' = contacts
               /\ weekly' = weekly
               /\ identity' = identity
               /\ {m \in messages' : \A n \in messages' : SameTriple(m, n) => m.id <= n.id}
                      = messages']_vars

\* a compaction took the later of two equal rows away: ids 1 and 3 are left,
\* and the connection is open again
C14_Witness ==
    /\ {m.id : m \in messages} = {1, 3}
    /\ \E m, n \in messages : m.id = 1 /\ n.id = 3 /\ m.message_date = n.message_date
                              /\ m.contact_id # n.contact_id
    /\ Cardinality(contacts) = 2
    /\ conn = "open"

(***************************************************************************)
(* Properties of the store's transactions.                                 *)
(***************************************************************************)
\* C15: a mutating operation that fails part-way leaves the four tables as
\* they were before the call.  The failures of store_message,
\* mark_messages_processed and the two summary writes are rolled back and
\* change nothing; the failure that shows is the one of optimize_database,
\* which leaves the connection closed
C15_AllOrNothing ==
    [][(conn = "open" /\ conn' = "closed") =>
           /\ contacts' = contacts
           /\ messages' = messages
           /\ weekly' = weekly
           /\ identity' = identity]_vars

(***************************************************************************)
(* Properties of the ingestion stage.                                      *)
(***************************************************************************)
\* the rows of the source that pass the content filter, as fetch_messages
\* answers them
Passing(source) ==
    {[date |-> r.date, text |-> Strip(r.text), sender |-> r.sender, chat_id |-> r.chat_id] :
        r \in {q \in source : ~Skipped(Strip(q.text))}}

\* C16: an ingestion reads from the source the messages later than every
\* message of the store, none of an equal or earlier date, and all the
\* messages when the store is empty
C16_HighWaterMark ==
    [][(fetch'.called /\ ~fetch.called /\ fetch'.state = "present") =>
           LET dates == {m.message_date : m \in messages}
           IN  /\ fetch'.start_date = NoDate <=> messages = {}
               /\ messages # {} =>
                      /\ fetch'.start_date \in dates
                      /\ \A d \in dates : d <= fetch'.start_date
               /\ Range(fetch'.result) =
                      {r \in Passing(fetch'.source) : \A d \in dates : r.date > d}]_vars

\* an ingestion into a store whose latest message is of day 3 left the source's
\* message of day 3 aside and took the one of day 8
C16_Witness ==
    /\ fetch.called
    /\ fetch.start_date = 3
    /\ \E m \in messages : m.message_date = 1
    /\ \E r \in Passing(fetch.source) : r.date = 3
    /\ \E i \in DOMAIN fetch.result : fetch.result[i].date = 8

\* C17: the messages an ingestion reads are in non-decreasing order of date,
\* whatever their chats
C17_ReadInDateOrder ==
    fetch.called =>
        \A i, j \in DOMAIN fetch.result :
            i < j => fetch.result[i].date <= fetch.result[j].date

\* C18: when chat.db is missing, its query raises, or it yields no message,
\* the ingestion reads an empty list, reports 0 stored messages and leaves the
\* four tables as they were
C18_NoSourceNoChange ==
    [][(fetch'.called /\ ~fetch.called) =>
           LET dates == {m.message_date : m \in messages}
               nothing == \/ fetch'.state # "present"
                          \/ {r \in Passing(fetch'.source) : \A d \in dates : r.date > d} = {}
           IN  nothing =>
                   /\ fetch'.result = <<>>
                   /\ fetch'.stored = 0
                   /\ contacts' = contacts
                   /\ messages' = messages
                   /\ weekly' = weekly
                   /\ identity' = identity]_vars

\* an ingestion found a chat.db with a good message in it but could not query
\* it: nothing was read, and the store is empty as before
C18_Witness ==
    /\ fetch.called
    /\ fetch.state = "error"
    /\ \E r \in Passing(fetch.source) : r.date = 8
    /\ fetch.stored = 0
    /\ messages = {}

\* the text holds one of the noise patterns, in any case of its letters
Noisy(text) == \E pattern \in SkipTexts : Contains(Lower(text), pattern)

\* C19: every message an ingestion passes on has at least two words and none
\* of the noise patterns, and every message read from the source that has both
\* is passed on
C19_ContentFilter ==
    (fetch.called /\ fetch.state = "present") =>
        /\ \A i \in DOMAIN fetch.result :
               /\ WordCount(fetch.result[i].text) >= 2
               /\ ~Noisy(fetch.result[i].text)
        /\ \A r \in fetch.source :
               (/\ fetch.start_date = NoDate \/ r.date > fetch.start_date
                /\ WordCount(r.text) >= 2
                /\ ~Noisy(r.text)) =>
                   \E i \in DOMAIN fetch.result :
                       /\ fetch.result[i].date = r.date
                       /\ fetch.result[i].chat_id = r.chat_id
                       /\ fetch.result[i].text = Strip(r.text)

\* of a reaction in capitals and a message wrapped in blanks, the ingestion
\* passed on the second alone, stripped
C19_Witness ==
    /\ fetch.called
    /\ \E r \in fetch.source : Noisy(r.text) /\ WordCount(r.text) >= 2 /\ r.text # Lower(r.text)
    /\ \E r \in fetch.source : r.text # Strip(r.text)
    /\ Len(fetch.result) = 1
    /\ Cardinality(fetch.source) = 2
    /\ fetch.start_date = NoDate

(***************************************************************************)
(* Properties of a whole run.                                              *)
(***************************************************************************)
\* C20: a run from an empty store over three messages of contact "A" in two
\* calendar weeks, each of at least one word, ends with 3 messages reported
\* stored, 2 weekly summaries and 1 identity snapshot of "A", generated with
\* no previous summary
C20_FirstRun ==
    runs = 2 =>
        /\ fetch.stored = 3
        /\ Cardinality(messages) = 3
        /\ Len(weekly) = 2
        /\ Len(identity) = 1
        /\ \E c \in contacts : c.identifier = ContactA /\ identity[1].contact_id = c.id
        /\ gen.called /\ gen.previous = None

(***************************************************************************)
(* Properties of the analysis behind a snapshot.                           *)
(***************************************************************************)
\* C21: the analysis keeps exactly the trait labels scored above 0.5 and the
\* topic labels scored above 0.3, with their scores, and one relationship
\* label, of the highest score the classifier gave; these are the maps of the
\* result a snapshot is made of
C21_RetainedLabels ==
    (gen.called /\ gen.answers.traits # Throws /\ gen.answers.context # Throws) =>
        LET traits == gen.retained.personality_traits
            context == gen.retained.relationship_context
            topics == gen.retained.common_topics
        IN  /\ DOMAIN traits = {l \in TraitLabels : 2 * gen.answers.traits[l] > ScoreScale}
            /\ \A l \in DOMAIN traits : traits[l] = gen.answers.traits[l]
            /\ gen.answers.topics # Throws =>
                   /\ DOMAIN topics =
                          {l \in TopicLabels : 10 * gen.answers.topics[l] > 3 * ScoreScale}
                   /\ \A l \in DOMAIN topics : topics[l] = gen.answers.topics[l]
            /\ Cardinality(DOMAIN context) = 1
            /\ \A l \in DOMAIN context :
                   /\ l \in ContextLabels
                   /\ context[l] = gen.answers.context[l]
                   /\ \A k \in ContextLabels : gen.answers.context[k] <= context[l]
            /\ ~gen.result.analysis.failed =>
                   /\ gen.result.analysis.personality_traits = traits
                   /\ gen.result.analysis.relationship_context = context
                   /\ gen.result.analysis.common_topics = topics

\* one trait scored 0.5 was dropped and one above it kept, the topic is above
\* 0.3, and of two relationship labels the second scored higher
C21_Witness ==
    /\ gen.called
    /\ gen.answers.traits # Throws /\ gen.answers.context # Throws
    /\ gen.answers.topics # Throws
    /\ \E l \in TraitLabels : 2 * gen.answers.traits[l] = ScoreScale
    /\ Cardinality(DOMAIN gen.retained.personality_traits) = 1
    /\ DOMAIN gen.retained.common_topics # {}
    /\ DOMAIN gen.retained.relationship_context = {"family member"}
    /\ gen.answers.context["close friend"] < gen.answers.context["family member"]
    /\ ~gen.result.analysis.failed

\* ---- a windowing pass whose engine fails on some units ----

EngineDays == {1, 7, 9}

EngineNowDays == {9, 16}

EngineInit ==
    /\ contacts = {[id |-> 1, identifier |-> ContactA, display_name |-> ContactA],
                   [id |-> 2, identifier |-> ContactB, display_name |-> ContactB]}
    /\ \E d1, d2 \in EngineDays, c \in {1, 2} :
           messages = {StoredRow(1, 1, d1, "hi there"), StoredRow(2, c, d2, "see you")}
    /\ weekly = <<>>
    /\ identity = <<>>
    /\ conn = "open"
    /\ clock = 0
    /\ consumed = <<>>
    /\ runs = 0
    /\ lastRun = NoRun
    /\ ingested = TRUE
    /\ marked = {}
    /\ gen = NoGen
    /\ fetch = NoFetch

\* one pass; lastRun keeps the units the engine was asked about, the outcome
\* of each, and the length of the table before the pass
EnginePass ==
    /\ runs < MaxRuns
    /\ \E now \in EngineNowDays :
           \E engine \in [Range(BusyUnits(now)) -> EngineOutcomes] :
               /\ RunWeeklySummaries(now, engine)
               /\ lastRun' = [now |-> now, units |-> BusyUnits(now),
                              outcomes |-> engine, before |-> Len(weekly)]
    /\ runs' = runs + 1
    /\ UNCHANGED <<consumed, ingested, marked, gen, fetch>>

EngineNext == EnginePass

SpecEngine == EngineInit /\ [][EngineNext]_vars

\* C22: a unit whose engine call throws or returns nothing yields the empty
\* summary and gets no row in that pass, and the pass goes on: the rows a pass
\* appends are, in unit order, exactly one row for each unit whose engine call
\* returned text.
C22_FailedUnitSkipped ==
    runs > 0 =>
        LET added == SubSeq(weekly, lastRun.before + 1, Len(weekly))
            good == SelectSeq(lastRun.units, LAMBDA u : lastRun.outcomes[u] = "text")
        IN  /\ \A k \in DOMAIN lastRun.units :
                   lastRun.outcomes[lastRun.units[k]] \in {"throws", "empty"} =>
                       /\ GenerateWeeklySummary(lastRun.outcomes[lastRun.units[k]]) = ""
                       /\ \A i \in DOMAIN added :
                              ~ /\ added[i].contact_id = lastRun.units[k].contact_id
                                /\ added[i].week_start_date = lastRun.units[k].start
            /\ Len(added) = Len(good)
            /\ \A i \in DOMAIN added :
                   /\ added[i].contact_id = good[i].contact_id
                   /\ added[i].week_start_date = good[i].start

\* a pass over three units: the engine threw on the first, returned nothing on
\* the second, and the third got its row
C22_Witness ==
    /\ runs > 0
    /\ Len(lastRun.units) = 3
    /\ lastRun.outcomes[lastRun.units[1]] = "throws"
    /\ lastRun.outcomes[lastRun.units[2]] = "empty"
    /\ lastRun.outcomes[lastRun.units[3]] = "text"
    /\ Len(weekly) = lastRun.before + 1
    /\ weekly[Len(weekly)].week_start_date = lastRun.units[3].start

\* ---- store_message and the directory lookups it makes ----

\* one store_message; lastRun keeps the identifier, whether it had a contact
\* row before the call and under which name, and the lookups the call made
ResolverIngest ==
    /\ Cardinality(messages) < MaxContactMsgs
    /\ \E identifier \in PhoneIdentifiers, dir \in DirectoryStates :
           /\ StoreMessage(identifier, 1, "hi there", dir)
           /\ lastRun' = [identifier |-> identifier,
                          known |-> \E c \in contacts : c.identifier = identifier,
                          name |-> IF \E c \in contacts : c.identifier = identifier
                                   THEN (CHOOSE c \in contacts :
                                             c.identifier = identifier).display_name
                                   ELSE None,
                          lookups |-> StoreMessageLookups(identifier)]
    /\ runs' = runs + 1
    /\ UNCHANGED <<consumed, ingested, marked, gen, fetch>>

ResolverNext == ResolverIngest

SpecResolver == Init /\ [][ResolverNext]_vars

\* C23: storing a message for an identifier that already has a contact row
\* makes no directory lookup and leaves the stored display name as it was.
C23_LookupOnFirstInsertOnly ==
    (runs > 0 /\ lastRun.known) =>
        /\ lastRun.lookups = <<>>
        /\ \A c \in contacts :
               c.identifier = lastRun.identifier => c.display_name = lastRun.name

\* C24: the windows of a pass partition each contact's history: every stored
\* message dated from the anchor to the current date of the pass is returned by
\* get_messages_for_timeframe for exactly one window of the pass.
C24_WindowsPartition ==
    runs > 0 =>
        LET starts == RunWindows(lastRun.now)
        IN  \A m \in messages :
                (starts[1] <= m.message_date /\ m.message_date <= lastRun.now) =>
                    Cardinality({k \in DOMAIN starts :
                        m \in Range(GetMessagesForTimeframe(m.contact_id, starts[k],
                                                            starts[k] + DaysPerWindow))}) = 1

\* ---- an ingestion that is interrupted, then run again ----

\* the first ingestion of an empty store stops after some of its messages
ResumeInterrupted ==
    /\ ~fetch.called
    /\ \E source \in Sources, k \in 1..MaxSourceRows :
           IngestionInterrupted("present", source, "absent", k)
    /\ UNCHANGED <<consumed, runs, lastRun, ingested, marked, gen>>

\* the ingestion is run again, to its end, against the same source
ResumeIngest ==
    /\ fetch.called
    /\ runs < MaxRuns
    /\ Ingestion("present", fetch.source, "absent")
    /\ runs' = runs + 1
    /\ ingested' = TRUE
    /\ UNCHANGED <<consumed, lastRun, marked, gen>>

ResumeNext ==
    \/ ResumeInterrupted
    \/ ResumeIngest

SpecResume == Init /\ [][ResumeNext]_vars

\* C25: once an interrupted ingestion has been run again to its end against
\* the same source, every message of the source that passes the content filter
\* is in the store.
C25_ResumeStoresAll ==
    runs > 0 =>
        LET eligible == FetchMessages("present", fetch.source, NoDate)
        IN  \A i \in DOMAIN eligible :
                \E m \in messages, c \in contacts :
                    /\ m.contact_id = c.id
                    /\ c.identifier = eligible[i].sender
                    /\ m.message_date = eligible[i].date
                    /\ m.text = eligible[i].text

\* C26: optimize_database keeps the processed status of every (contact, date,
\* text) group: when a row of the group was marked processed before it, the
\* row of the group that is left is marked processed.
C26_CompactKeepsProcessed ==
    [][\A vacuumOk \in BOOLEAN :
           OptimizeDatabase(vacuumOk) =>
               \A m \in messages :
                   m.processed_in_summary =>
                       \A k \in GroupOf(messages', m) : k.processed_in_summary]_vars

\* C27: when optimize_database returns, whether its VACUUM succeeded or
\* failed, the store holds an open connection, so that the operations after it
\* act as on a freshly opened store.
C27_OpenAfterCompact ==
    [][\A vacuumOk \in BOOLEAN : OptimizeDatabase(vacuumOk) => conn' = "open"]_vars

====
